---- MODULE Spec2Model ----
(***************************************************************************)
(* A model of the reMarkable 2 article organizer (src/rm2_organizer.py):   *)
(* the document store (the *.metadata files), the content and page files,  *)
(* the reading-state store, the in-memory processed set, and one pass of   *)
(* RemarkableOrganizer.process_new_articles as a single action.            *)
(*                                                                         *)
(* Timestamps are kept as the code keeps them: the clock (time.time()) in  *)
(* seconds, lastModified / lastOpened in milliseconds.  A comparison of    *)
(* two float quotients is made on the cross-multiplied integers.           *)
(* A completion ratio pages_read / total_pages is the pair                 *)
(* <<pages_read, total_pages>>; 0.0 is <<0, 1>>.                           *)
(*                                                                         *)
(* In the file the "def" lines of find_folder_id (before line 234) and of  *)
(* organize_by_date_if_enabled (before line 361) are absent and            *)
(* ensure_folders_exist is not defined at all, although                    *)
(* process_new_articles and get_document_current_folder call them.  The    *)
(* first two are modelled from their bodies (lines 234-240, 361-393);      *)
(* ensure_folders_exist is modelled from the specification's               *)
(* resolve_or_create.                                                      *)
(***************************************************************************)
EXTENDS Integers, Sequences, FiniteSets, TLC

\* ------------------------------------------------------------ bounds
MaxTicks == 2
MaxEvents == 1
\* archive_read_articles.days_threshold as configured in the model (the
\* default of 30 days does not fit 32-bit milliseconds)
DaysThreshold == 2

\* ------------------------------------------------- program constants
MsPerSecond == 1000
SecondsPerMinute == 60
SecondsPerDay == 86400
RecentWindow == 86400
MaxSessionTime == 3600
PollInterval == 30
FileAgeThreshold == 5
TimeThreshold == 300
PagesThresholdTenths == 8
AnnotationRatioTenths == 3
Tenths == 10

Epoch0 == 5 * SecondsPerDay
LongStep == (DaysThreshold + 1) * SecondsPerDay
\* the gaps between two passes: poll_interval, or longer
TickSteps == {PollInterval, LongStep}

\* ------------------------------------------------------- identifiers
Docs == {"d1", "d2", "d3", "d4"}
\* the documents the reader works on
ReaderDocs == {"d1"}
FolderPool ==
    <<"f1", "f2", "f3", "f4", "f5", "f6", "f7", "f8", "f9", "f10", "f11", "f12">>
FolderIdSet == {FolderPool[i] : i \in 1..Len(FolderPool)}
\* the order in which glob('*.metadata') lists the store
IdOrder == <<"d1", "d2", "d3", "d4">> \o FolderPool
None == "None"
Root == ""

RoleSet == {"to_read", "read", "archive"}

\* ----------------------------------------------------- display names
\* A display name is a sequence of tokens; lower() and the substring test
\* work token by token.
Lower(tok) ==
    CASE tok = "Read" -> "read"
      [] tok = "On" -> "on"
      [] tok = "reMarkable" -> "remarkable"
      [] tok = "BLOG" -> "blog"
      [] tok = "Post" -> "post"
      [] tok = "Shopping" -> "shopping"
      [] tok = "List" -> "list"
      [] tok = "To" -> "to"
      [] tok = "Articles" -> "articles"
      [] tok = "Archived" -> "archived"
      [] OTHER -> tok

LowerName(name) == [i \in 1..Len(name) |-> Lower(name[i])]

\* pattern in visible_name
Contains(pattern, name) ==
    \E i \in 0..(Len(name) - Len(pattern)) :
        \A j \in 1..Len(pattern) : name[i + j] = pattern[j]

ArticleName == <<"Read", "on", "reMarkable", ":", "example", ".com", "/foo">>
BlogName == <<"BLOG", "Post">>
PlainName == <<"Shopping", "List">>

default_config ==
    [folders |-> [to_read |-> <<"To", "Read">>,
                  read |-> <<"Read", "Articles">>,
                  archive |-> <<"Archived", "Articles">>],
     source_patterns |-> << <<"read", "on", "remarkable">>,
                            <<"chrome", "extension">>,
                            <<"web", "article">> >>,
     file_age_threshold |-> FileAgeThreshold,
     organize_by_date |-> FALSE,
     reading_detection |-> [enable_auto_move |-> TRUE,
                            time_threshold |-> TimeThreshold,
                            annotation_indicates_read |-> TRUE],
     archive_read_articles |-> [enable |-> FALSE,
                                days_threshold |-> DaysThreshold]]

WebIndicators ==
    << <<"http">>, <<"www.">>, <<".com">>, <<".org">>, <<".net">>,
       <<"article">>, <<"blog">> >>

VARIABLES
    pc,               \* run_daemon: "pass" before a pass, "sleep" after it,
                      \* "stopped" when the process has ended
    now,              \* time.time(), seconds
    ticks,            \* clock steps taken
    events,           \* user actions taken
    config,           \* self.config
    store,            \* the *.metadata files: id -> metadata
    content,          \* the *.content files of the documents
    pagedata,         \* the page metadata files of the documents
    reading_state,    \* self.reading_state: doc id -> observation record
    processed_files,  \* self.processed_files
    folder_ids,       \* the last pass's folder_ids (role -> id)
    run,              \* the last pass's per-document locals
    counts,           \* the last pass's counters
    undisturbed,      \* no user action since the last pass
    reading_state_file,  \* reading_state.json as it stands on disk
    fault             \* what went wrong in the last pass, "none" if nothing

vars == <<pc, now, ticks, events, config, store, content, pagedata,
          reading_state, processed_files, folder_ids, run, counts,
          undisturbed, reading_state_file, fault>>

NowMs == now * MsPerSecond

\* ------------------------------------------------------ the analyzer
ZeroRatio == <<0, 1>>

Min(a, b) == IF a < b THEN a ELSE b
Max(a, b) == IF a > b THEN a ELSE b

DefaultAnalysis ==
    [pages_read |-> 0, total_pages |-> 0, has_annotations |-> FALSE,
     has_bookmarks |-> FALSE, last_opened |-> 0, reading_time |-> 0,
     completion_ratio |-> ZeroRatio, likely_read |-> FALSE]

\* a layer with strokes or highlights marks its page as annotated
PageAnnotated(page_data) ==
    \E k \in 1..Len(page_data.layers) :
        page_data.layers[k].strokes \/ page_data.layers[k].highlights

AnnotatedPages(pages_data) ==
    Cardinality({p \in 1..Len(pages_data) : PageAnnotated(pages_data[p])})

\* the ratio taken outside the total_pages > 0 guard, over at least one page
ProgressUnguarded(total_pages, annotated_pages, last_opened, t) ==
    LET pages_read ==
            IF annotated_pages > 0 THEN annotated_pages
            ELSE IF t * MsPerSecond - last_opened < RecentWindow * MsPerSecond
                 THEN Min(total_pages, Max(1, total_pages \div 4))
                 ELSE 0
    IN  [pages_read |-> pages_read,
         completion_ratio |-> <<pages_read, Max(1, total_pages)>>]

\* lines 190-204: pages_read (the annotated pages, else a quarter of the
\* pages of a document opened within the last 24 hours) and completion_ratio
Progress(total_pages, annotated_pages, last_opened, t) ==
    IF total_pages > 0
    THEN LET pages_read ==
                 IF annotated_pages > 0 THEN annotated_pages
                 ELSE IF t * MsPerSecond - last_opened
                             < RecentWindow * MsPerSecond
                      THEN Min(total_pages, Max(1, total_pages \div 4))
                      ELSE 0
         IN  [pages_read |-> pages_read,
              completion_ratio |-> <<pages_read, total_pages>>]
    ELSE [pages_read |-> 0, completion_ratio |-> ZeroRatio]

\* reading_time from the previous observation record
ReadingTime(doc_id, last_opened, rs) ==
    IF doc_id \in DOMAIN rs
    THEN IF last_opened > rs[doc_id].last_opened
         THEN rs[doc_id].reading_time
                  + Min(MaxSessionTime, last_opened - rs[doc_id].last_opened)
         ELSE rs[doc_id].reading_time
    ELSE 0

\* the annotation signal taken without the test of the ratio
LikelyReadAnnotationAlone(cfg, ratio, has_annotations, reading_time) ==
    \/ ratio[1] * Tenths >= PagesThresholdTenths * ratio[2]
    \/ /\ cfg.reading_detection.annotation_indicates_read
       /\ has_annotations
    \/ reading_time >= cfg.reading_detection.time_threshold

\* lines 218-228
LikelyRead(cfg, ratio, has_annotations, reading_time) ==
    \/ ratio[1] * Tenths >= PagesThresholdTenths * ratio[2]
    \/ /\ cfg.reading_detection.annotation_indicates_read
       /\ has_annotations
       /\ ratio[1] * Tenths > AnnotationRatioTenths * ratio[2]
    \/ reading_time >= cfg.reading_detection.time_threshold

\* c: the content file, [kind, pages, bookmarks]: kind "missing" when
\* get_document_content returns None (no file, or unreadable), "object" for
\* a JSON object, "malformed" for JSON that is not an object, on which
\* content.get raises and the handler of line 230 returns the analysis as
\* filled so far; pd: the page metadata read by get_document_pagedata
analyze_reading_progress(doc_id, metadata, c, pd, rs, cfg, t) ==
    LET last_opened == metadata.lastOpened
        present == c.kind = "object"
    IN  IF c.kind = "malformed"
        THEN [DefaultAnalysis EXCEPT !.last_opened = last_opened]
        ELSE
        LET total_pages == IF present THEN Len(c.pages) ELSE 0
            annotated == IF present THEN AnnotatedPages(pd) ELSE 0
            progress == Progress(total_pages, annotated, last_opened, t)
            ratio == progress.completion_ratio
            has_annotations == annotated > 0
            reading_time == ReadingTime(doc_id, last_opened, rs)
        IN  [pages_read |-> progress.pages_read,
             total_pages |-> total_pages,
             has_annotations |-> has_annotations,
             has_bookmarks |-> (present /\ Len(c.bookmarks) > 0),
             last_opened |-> last_opened,
             reading_time |-> reading_time,
             completion_ratio |-> ratio,
             likely_read |-> LikelyRead(cfg, ratio, has_annotations, reading_time)]

\* ------------------------------------------------- the document store
get_documents_metadata(st) == st

FirstId(ids) ==
    IdOrder[CHOOSE i \in 1..Len(IdOrder) :
                /\ IdOrder[i] \in ids
                /\ \A j \in 1..(i - 1) : IdOrder[j] \notin ids]

\* the lookup without the test of the tombstone
find_folder_id_any(folder_name, metadata) ==
    LET hits == {id \in DOMAIN metadata :
                    /\ metadata[id].type = "CollectionType"
                    /\ metadata[id].visibleName = folder_name}
    IN  IF hits = {} THEN None ELSE FirstId(hits)

\* the body at lines 234-240: the first live Collection of that name
find_folder_id(folder_name, metadata) ==
    LET hits == {id \in DOMAIN metadata :
                    /\ metadata[id].type = "CollectionType"
                    /\ metadata[id].visibleName = folder_name
                    /\ ~metadata[id].deleted}
    IN  IF hits = {} THEN None ELSE FirstId(hits)

\* uuid.uuid4(): an identifier no file of the store carries
NewId(st) == FirstId(FolderIdSet \ DOMAIN st)

FolderMetadata(folder_name, parent_id, t) ==
    [type |-> "CollectionType", deleted |-> FALSE, visibleName |-> folder_name,
     parent |-> parent_id, lastModified |-> t * MsPerSecond, lastOpened |-> 0,
     metadatamodified |-> TRUE, modified |-> TRUE]

\* a folder written under its identifier in place of its name
create_folder_nameless(folder_name, st, t) ==
    LET folder_id == NewId(st)
    IN  [id |-> folder_id,
         store |-> [i \in DOMAIN st \cup {folder_id} |->
                       IF i = folder_id
                       THEN FolderMetadata(<<folder_id>>, Root, t)
                       ELSE st[i]]]

\* lines 242-272: returns the new identifier and the store with the folder
\* written
create_folder(folder_name, st, t) ==
    LET folder_id == NewId(st)
    IN  [id |-> folder_id,
         store |-> [i \in DOMAIN st \cup {folder_id} |->
                       IF i = folder_id THEN FolderMetadata(folder_name, Root, t)
                       ELSE st[i]]]

create_date_folder(date_str, parent_id, st, t) ==
    LET folder_id == NewId(st)
    IN  [id |-> folder_id,
         store |-> [i \in DOMAIN st \cup {folder_id} |->
                       IF i = folder_id THEN FolderMetadata(date_str, parent_id, t)
                       ELSE st[i]]]

\* find-or-create of one role's folder: the lookup is made in the pass's
\* metadata, the creation in the store
ResolveOrCreate(folder_name, metadata, st, t) ==
    LET found == find_folder_id(folder_name, metadata)
    IN  IF found # None THEN [id |-> found, store |-> st]
        ELSE create_folder(folder_name, st, t)

\* folder_ids (role -> id) and the store after the creations
ensure_folders_exist(metadata, st, cfg, t) ==
    LET r1 == ResolveOrCreate(cfg.folders.to_read, metadata, st, t)
        r2 == ResolveOrCreate(cfg.folders.read, metadata, r1.store, t)
        r3 == ResolveOrCreate(cfg.folders.archive, metadata, r2.store, t)
    IN  [folder_ids |-> [to_read |-> r1.id, read |-> r2.id, archive |-> r3.id],
         store |-> r3.store]

\* the gate without the test of the tombstone
is_article_document_undeleted(metadata, cfg) ==
    IF metadata.type # "DocumentType" THEN FALSE
    ELSE LET visible_name == LowerName(metadata.visibleName)
         IN  \/ \E k \in 1..Len(cfg.source_patterns) :
                    Contains(LowerName(cfg.source_patterns[k]), visible_name)
             \/ \E k \in 1..Len(WebIndicators) :
                    Contains(WebIndicators[k], visible_name)

\* lines 274-297
is_article_document(metadata, cfg) ==
    IF metadata.type # "DocumentType" THEN FALSE
    ELSE IF metadata.deleted THEN FALSE
    ELSE LET visible_name == LowerName(metadata.visibleName)
         IN  \/ \E k \in 1..Len(cfg.source_patterns) :
                    Contains(LowerName(cfg.source_patterns[k]), visible_name)
             \/ \E k \in 1..Len(WebIndicators) :
                    Contains(WebIndicators[k], visible_name)

\* a move that writes a new record: lastOpened is not carried over
move_document_dropping_fields(doc_id, folder_id, metadata, st, t) ==
    [st EXCEPT ![doc_id] =
        [metadata[doc_id] EXCEPT !.parent = folder_id,
                                 !.lastModified = t * MsPerSecond,
                                 !.lastOpened = 0,
                                 !.metadatamodified = TRUE,
                                 !.modified = TRUE]]

\* a move that stamps the document and leaves its parent as it was
move_document_keeping_parent(doc_id, folder_id, metadata, st, t) ==
    [st EXCEPT ![doc_id] =
        [metadata[doc_id] EXCEPT !.lastModified = t * MsPerSecond,
                                 !.metadatamodified = TRUE,
                                 !.modified = TRUE]]

\* a move that writes the new parent and leaves lastModified as it was
move_document_unstamped(doc_id, folder_id, metadata, st, t) ==
    [st EXCEPT ![doc_id] =
        [metadata[doc_id] EXCEPT !.parent = folder_id,
                                 !.metadatamodified = TRUE,
                                 !.modified = TRUE]]

\* writes the pass's copy of the document's metadata with the new parent
move_document_to_folder(doc_id, folder_id, metadata, st, t) ==
    [st EXCEPT ![doc_id] =
        [metadata[doc_id] EXCEPT !.parent = folder_id,
                                 !.lastModified = t * MsPerSecond,
                                 !.metadatamodified = TRUE,
                                 !.modified = TRUE]]

\* a classification that looks through a sub-collection: the role of the
\* folder that encloses the document's parent counts as the document's
get_document_current_folder_nested(doc_id, metadata, cfg) ==
    IF doc_id \notin DOMAIN metadata THEN None
    ELSE LET parent_id == metadata[doc_id].parent
             outer == IF parent_id \in DOMAIN metadata
                         /\ metadata[parent_id].parent # Root
                      THEN metadata[parent_id].parent
                      ELSE parent_id
         IN  IF parent_id = Root THEN "root"
             ELSE IF find_folder_id(cfg.folders.to_read, metadata) = outer
                  THEN "to_read"
             ELSE IF find_folder_id(cfg.folders.read, metadata) = outer
                  THEN "read"
             ELSE IF find_folder_id(cfg.folders.archive, metadata) = outer
                  THEN "archive"
             ELSE "other"

get_document_current_folder(doc_id, metadata, cfg) ==
    IF doc_id \notin DOMAIN metadata THEN None
    ELSE LET parent_id == metadata[doc_id].parent
         IN  IF parent_id = Root THEN "root"
             ELSE IF find_folder_id(cfg.folders.to_read, metadata) = parent_id
                  THEN "to_read"
             ELSE IF find_folder_id(cfg.folders.read, metadata) = parent_id
                  THEN "read"
             ELSE IF find_folder_id(cfg.folders.archive, metadata) = parent_id
                  THEN "archive"
             ELSE "other"

\* the verdict alone, enable_auto_move not consulted
should_move_ignoring_switch(analysis, cfg) == analysis.likely_read

should_move_to_read_folder(analysis, cfg) ==
    IF ~cfg.reading_detection.enable_auto_move THEN FALSE
    ELSE analysis.likely_read

\* the threshold compared with > in place of >=
should_archive_strictly_older(analysis, cfg, t) ==
    IF ~cfg.archive_read_articles.enable THEN FALSE
    ELSE IF ~analysis.likely_read THEN FALSE
    ELSE t * MsPerSecond - analysis.last_opened
             > cfg.archive_read_articles.days_threshold
                    * SecondsPerDay * MsPerSecond

should_archive_document(analysis, cfg, t) ==
    IF ~cfg.archive_read_articles.enable THEN FALSE
    ELSE IF ~analysis.likely_read THEN FALSE
    ELSE t * MsPerSecond - analysis.last_opened
             >= cfg.archive_read_articles.days_threshold
                    * SecondsPerDay * MsPerSecond

\* strftime of the day of a millisecond timestamp
DateStr(ms) == <<ToString(ms \div (SecondsPerDay * MsPerSecond))>>

\* the body at lines 361-393: the destination and the store after a
\* creation; the lookup reads the store again
organize_by_date_if_enabled(folder_id, doc_metadata, st, cfg, t) ==
    IF ~cfg.organize_by_date THEN [id |-> folder_id, store |-> st]
    ELSE LET date_str == IF doc_metadata.lastModified # 0
                         THEN DateStr(doc_metadata.lastModified)
                         ELSE DateStr(t * MsPerSecond)
             metadata == get_documents_metadata(st)
             hits == {id \in DOMAIN metadata :
                         /\ metadata[id].type = "CollectionType"
                         /\ metadata[id].visibleName = date_str
                         /\ metadata[id].parent = folder_id
                         /\ ~metadata[id].deleted}
         IN  IF hits # {} THEN [id |-> FirstId(hits), store |-> st]
             ELSE create_date_folder(date_str, folder_id, st, t)

\* --------------------------------------------------------- one pass
NoRun ==
    [analysed |-> FALSE, current_folder_type |-> None,
     target_folder_type |-> None, final_folder_id |-> None,
     analysis |-> DefaultAnalysis]

NoCounts ==
    [articles_processed |-> 0, articles_moved_to_read |-> 0,
     articles_archived |-> 0]

\* file_age_threshold taken as seconds: the factor 60 left out
AgeGateInSeconds(doc_metadata, cfg, t) ==
    t * MsPerSecond - doc_metadata.lastModified
        < cfg.file_age_threshold * MsPerSecond

\* lines 448-450: the document is skipped when this holds
AgeGate(doc_metadata, cfg, t) ==
    t * MsPerSecond - doc_metadata.lastModified
        < cfg.file_age_threshold * SecondsPerMinute * MsPerSecond

\* a chain that looks ahead: a document in to_read that already meets the
\* archive condition is sent straight to archive
TargetFolderTypeSkipping(doc_id, current_folder_type, analysis, processed, cfg, t) ==
    IF current_folder_type = "root" /\ doc_id \notin processed THEN "to_read"
    ELSE IF current_folder_type = "to_read"
            /\ should_move_to_read_folder(analysis, cfg)
         THEN IF should_archive_document(analysis, cfg, t)
              THEN "archive" ELSE "read"
    ELSE IF current_folder_type = "read"
            /\ should_archive_document(analysis, cfg, t) THEN "archive"
    ELSE None

\* a chain that does not consult the processed set
TargetFolderTypeForgetful(doc_id, current_folder_type, analysis, processed, cfg, t) ==
    IF current_folder_type = "root" THEN "to_read"
    ELSE IF current_folder_type = "to_read"
            /\ should_move_to_read_folder(analysis, cfg) THEN "read"
    ELSE IF current_folder_type = "read"
            /\ should_archive_document(analysis, cfg, t) THEN "archive"
    ELSE None

\* a chain that turns back: a document in archive that was read is sent to
\* the read folder again
TargetFolderTypeReturning(doc_id, current_folder_type, analysis, processed, cfg, t) ==
    IF current_folder_type = "root" /\ doc_id \notin processed THEN "to_read"
    ELSE IF current_folder_type = "to_read"
            /\ should_move_to_read_folder(analysis, cfg) THEN "read"
    ELSE IF current_folder_type = "read"
            /\ should_archive_document(analysis, cfg, t) THEN "archive"
    ELSE IF current_folder_type = "archive" /\ analysis.likely_read THEN "read"
    ELSE None

\* lines 468-487: the transition of one document
TargetFolderType(doc_id, current_folder_type, analysis, processed, cfg, t) ==
    IF current_folder_type = "root" /\ doc_id \notin processed THEN "to_read"
    ELSE IF current_folder_type = "to_read"
            /\ should_move_to_read_folder(analysis, cfg) THEN "read"
    ELSE IF current_folder_type = "read"
            /\ should_archive_document(analysis, cfg, t) THEN "archive"
    ELSE None

ObservationRecord(analysis, t) ==
    [last_opened |-> analysis.last_opened,
     reading_time |-> analysis.reading_time,
     completion_ratio |-> analysis.completion_ratio,
     has_annotations |-> analysis.has_annotations,
     last_checked |-> t]

\* a record is written on the first analysis only
UpdateReadingStateOnce(rs, doc_id, analysis, t) ==
    [d \in DOMAIN rs \cup {doc_id} |->
        IF d \in DOMAIN rs THEN rs[d] ELSE ObservationRecord(analysis, t)]

\* lines 455-462: the record of the document is replaced
UpdateReadingState(rs, doc_id, analysis, t) ==
    [d \in DOMAIN rs \cup {doc_id} |->
        IF d = doc_id THEN ObservationRecord(analysis, t) ELSE rs[d]]

\* lines 443-500: one iteration of the loop over metadata.items();
\* acc holds the store, the reading state, the processed set, the locals
\* of the iteration (run) and the counters
ProcessDocument(acc, doc_id, metadata, fids, cfg, t) ==
    IF ~is_article_document(metadata[doc_id], cfg) THEN acc
    ELSE IF AgeGate(metadata[doc_id], cfg, t) THEN acc
    ELSE
    LET analysis == analyze_reading_progress(doc_id, metadata[doc_id],
                        content[doc_id], pagedata[doc_id],
                        acc.reading_state, cfg, t)
        rs == UpdateReadingState(acc.reading_state, doc_id, analysis, t)
        current == get_document_current_folder(doc_id, metadata, cfg)
        target == TargetFolderType(doc_id, current, analysis,
                                   acc.processed_files, cfg, t)
        moves == target # None /\ target \in DOMAIN fids
        dest == IF moves
                THEN organize_by_date_if_enabled(fids[target], metadata[doc_id],
                                                 acc.store, cfg, t)
                ELSE [id |-> None, store |-> acc.store]
    IN  [store |-> IF moves
                   THEN move_document_to_folder(doc_id, dest.id, metadata,
                                                dest.store, t)
                   ELSE acc.store,
         reading_state |-> rs,
         processed_files |-> IF target = "to_read" /\ current = "root"
                             THEN acc.processed_files \cup {doc_id}
                             ELSE acc.processed_files,
         run |-> [acc.run EXCEPT ![doc_id] =
                     [analysed |-> TRUE, current_folder_type |-> current,
                      target_folder_type |-> target,
                      final_folder_id |-> dest.id, analysis |-> analysis]],
         counts |-> [articles_processed |->
                         acc.counts.articles_processed
                             + (IF target = "to_read" THEN 1 ELSE 0),
                     articles_moved_to_read |->
                         acc.counts.articles_moved_to_read
                             + (IF target = "read" THEN 1 ELSE 0),
                     articles_archived |->
                         acc.counts.articles_archived
                             + (IF target = "archive" THEN 1 ELSE 0)]]

RECURSIVE ProcessAll(_, _, _, _, _, _)
ProcessAll(acc, i, metadata, fids, cfg, t) ==
    IF i > Len(IdOrder) THEN acc
    ELSE ProcessAll(IF IdOrder[i] \in DOMAIN metadata
                    THEN ProcessDocument(acc, IdOrder[i], metadata, fids, cfg, t)
                    ELSE acc,
                    i + 1, metadata, fids, cfg, t)

\* lines 115-121 and 103-113: the file written whole, and the file read
\* back; a file that does not parse is read as no records
save_reading_state(rs) == [complete |-> TRUE, records |-> rs]

load_reading_state(file) == IF file.complete THEN file.records ELSE <<>>

\* lines 425-512: the result of a pass started in the given state
PassResult(st, rs, processed, cfg, t) ==
    LET metadata == get_documents_metadata(st)
        ens == ensure_folders_exist(metadata, st, cfg, t)
    IN  [folder_ids |-> ens.folder_ids,
         acc |-> ProcessAll([store |-> ens.store, reading_state |-> rs,
                             processed_files |-> processed,
                             run |-> [d \in Docs |-> NoRun],
                             counts |-> NoCounts],
                            1, metadata, ens.folder_ids, cfg, t)]

\* a lastModified that int() does not parse
Malformed == -1

\* line 448: the documents at which the loop raises, none of its own
\* statements being guarded
Raising(metadata, cfg) ==
    {d \in DOMAIN metadata : /\ is_article_document(metadata[d], cfg)
                             /\ metadata[d].lastModified = Malformed}

process_new_articles ==
    /\ pc = "pass"
    /\ Raising(store, config) = {}
    /\ pc' = "sleep"
    /\ \E res \in {PassResult(store, reading_state, processed_files,
                              config, now)} :
        /\ store' = res.acc.store
        /\ reading_state' = res.acc.reading_state
        /\ processed_files' = res.acc.processed_files
        /\ folder_ids' = res.folder_ids
        /\ run' = res.acc.run
        /\ counts' = res.acc.counts
        /\ reading_state_file' = save_reading_state(res.acc.reading_state)
    /\ undisturbed' = TRUE
    /\ fault' = "none"
    /\ UNCHANGED <<now, ticks, events, config, content, pagedata>>

\* ----------------------------------------------- the environment
\* run_daemon, line 522: time.sleep between two passes
Sleep ==
    /\ pc = "sleep"
    /\ pc' = "pass"
    /\ ticks < MaxTicks
    /\ \E step \in TickSteps : now' = now + step
    /\ ticks' = ticks + 1
    /\ UNCHANGED <<events, config, store, content, pagedata, reading_state,
                   processed_files, folder_ids, run, counts, undisturbed,
                   reading_state_file, fault>>

LiveDocs == {d \in ReaderDocs : d \in DOMAIN store /\ ~store[d].deleted}

\* the reader opens a document: the device stamps lastOpened
UserOpens ==
    /\ pc = "sleep"
    /\ events < MaxEvents
    /\ \E d \in LiveDocs :
        /\ store[d].lastOpened # NowMs
        /\ store' = [store EXCEPT ![d].lastOpened = NowMs]
    /\ events' = events + 1
    /\ undisturbed' = FALSE
    /\ UNCHANGED <<pc, now, ticks, config, content, pagedata, reading_state,
                   processed_files, folder_ids, run, counts,
                   reading_state_file, fault>>

AnnotatedPage == [layers |-> <<[strokes |-> TRUE, highlights |-> FALSE]>>]
BlankPage == [layers |-> <<[strokes |-> FALSE, highlights |-> FALSE]>>]

\* the reader writes on one more page: the device writes the page's
\* metadata and stamps lastModified
UserAnnotates ==
    /\ pc = "sleep"
    /\ events < MaxEvents
    /\ \E d \in LiveDocs :
        /\ content[d].kind = "object"
        /\ Len(pagedata[d]) < Len(content[d].pages)
        /\ pagedata' = [pagedata EXCEPT ![d] = Append(@, AnnotatedPage)]
        /\ store' = [store EXCEPT ![d].lastModified = NowMs]
    /\ events' = events + 1
    /\ undisturbed' = FALSE
    /\ UNCHANGED <<pc, now, ticks, config, content, reading_state,
                   processed_files, folder_ids, run, counts,
                   reading_state_file, fault>>

\* the reader deletes a folder: the device tombstones it
UserDeletesFolder ==
    /\ pc = "sleep"
    /\ events < MaxEvents
    /\ \E f \in DOMAIN store :
        /\ store[f].type = "CollectionType"
        /\ ~store[f].deleted
        /\ store[f].parent = Root
        /\ store' = [store EXCEPT ![f].deleted = TRUE]
    /\ events' = events + 1
    /\ undisturbed' = FALSE
    /\ UNCHANGED <<pc, now, ticks, config, content, pagedata, reading_state,
                   processed_files, folder_ids, run, counts,
                   reading_state_file, fault>>

\* ------------------------------------------------------ initial states
DocumentMetadata(name, parent_id, deleted, last_modified, last_opened) ==
    [type |-> "DocumentType", deleted |-> deleted, visibleName |-> name,
     parent |-> parent_id, lastModified |-> last_modified,
     lastOpened |-> last_opened, metadatamodified |-> FALSE,
     modified |-> FALSE]

PageIds(n) == [i \in 1..n |-> i]

ContentFile(kind, n) == [kind |-> kind, pages |-> PageIds(n), bookmarks |-> <<>>]

\* content and page metadata a document starts with
Readings ==
    {[content |-> ContentFile("missing", 0), pagedata |-> <<AnnotatedPage>>],
     [content |-> ContentFile("object", 0), pagedata |-> <<AnnotatedPage>>],
     [content |-> ContentFile("malformed", 0), pagedata |-> <<>>],
     [content |-> ContentFile("object", 4), pagedata |-> <<BlankPage>>],
     [content |-> ContentFile("object", 5),
      pagedata |-> [i \in 1..5 |-> AnnotatedPage]]}

Configs ==
    {[default_config EXCEPT !.organize_by_date = o,
                            !.reading_detection.enable_auto_move = m,
                            !.archive_read_articles.enable = a] :
        o \in BOOLEAN, m \in BOOLEAN, a \in BOOLEAN}

Epoch0Ms == Epoch0 * MsPerSecond
\* exactly file_age_threshold minutes old, one minute old, and opened
\* exactly days_threshold days ago
OldMs == Epoch0Ms - FileAgeThreshold * SecondsPerMinute * MsPerSecond
YoungMs == Epoch0Ms - SecondsPerMinute * MsPerSecond
LongAgoMs == Epoch0Ms - DaysThreshold * SecondsPerDay * MsPerSecond

RecentMs == Epoch0Ms - MaxSessionTime * MsPerSecond

\* the other documents: an article still being transferred, a deleted
\* article, and a document that is no article
Companion == DocumentMetadata(BlogName, Root, FALSE, YoungMs, 0)
DeletedArticle == DocumentMetadata(ArticleName, Root, TRUE, OldMs, 0)
PlainDocument == DocumentMetadata(PlainName, Root, FALSE, OldMs, 0)

\* the store before the organizer first runs: no folders (used = FALSE), or
\* folders left by an earlier run: "To Read" once deleted and made again,
\* "Read Articles", and no archive folder yet
InitialFolders(used) == IF used THEN {"f1", "f2", "f3"} ELSE {}

InitialParents(used) == IF used THEN {"f2", "f3"} ELSE {Root}

InitialStore(used, m1) ==
    [i \in Docs \cup InitialFolders(used) |->
        CASE i = "d1" -> m1
          [] i = "d2" -> Companion
          [] i = "d3" -> DeletedArticle
          [] i = "d4" -> PlainDocument
          [] i = "f1" -> [FolderMetadata(default_config.folders.to_read, Root, 0)
                             EXCEPT !.deleted = TRUE]
          [] i = "f2" -> FolderMetadata(default_config.folders.to_read, Root, 0)
          [] i = "f3" -> FolderMetadata(default_config.folders.read, Root, 0)]

CompanionReading ==
    [content |-> ContentFile("object", 1), pagedata |-> <<>>]

PriorReadingTime == 2 * SecondsPerMinute

\* reading_state.json as load_reading_state finds it: empty before the first
\* run, and with d1's record of the earlier run that filed d1
InitialReadingState(used) ==
    IF used
    THEN [d \in {"d1"} |->
             [last_opened |-> LongAgoMs, reading_time |-> PriorReadingTime,
              completion_ratio |-> ZeroRatio, has_annotations |-> FALSE,
              last_checked |-> 0]]
    ELSE <<>>

Init ==
    /\ pc = "pass"
    /\ now = Epoch0
    /\ ticks = 0
    /\ events = 0
    /\ config \in Configs
    /\ \E used \in BOOLEAN, lo \in {LongAgoMs, RecentMs} :
         /\ \E p \in InitialParents(used) :
              store = InitialStore(used,
                          DocumentMetadata(ArticleName, p, FALSE, OldMs, lo))
         /\ reading_state_file = save_reading_state(InitialReadingState(used))
         /\ reading_state = load_reading_state(reading_state_file)
    /\ \E r \in Readings :
         /\ content = [d \in Docs |-> IF d = "d1" THEN r.content
                                      ELSE CompanionReading.content]
         /\ pagedata = [d \in Docs |-> IF d = "d1" THEN r.pagedata
                                       ELSE CompanionReading.pagedata]
    /\ processed_files = {}
    /\ folder_ids = [r \in RoleSet |-> None]
    /\ run = [d \in Docs |-> NoRun]
    /\ counts = NoCounts
    /\ undisturbed = TRUE
    /\ fault = "none"

Next ==
    \/ process_new_articles
    \/ Sleep
    \/ UserOpens
    \/ UserAnnotates
    \/ UserDeletesFolder

Spec == Init /\ [][Next]_vars

\* ------------------------------------------------- passes that fail
\* an exception of the pass that reaches run_daemon and ends its loop
PassBoundaryUncaught(raised) == IF raised THEN "stopped" ELSE "sleep"

\* the value of pc after a pass: the except of lines 511-512 ends the pass,
\* raised or not, and the loop of run_daemon goes on to time.sleep
PassBoundary(raised) == "sleep"

\* the find-or-create of the roles before the one whose creation fails
\* (create_folder raises on a write it cannot make)
ensure_folders_exist_failing(metadata, st, cfg, t, bad) ==
    LET r1 == ResolveOrCreate(cfg.folders.to_read, metadata, st, t)
        r2 == ResolveOrCreate(cfg.folders.read, metadata, r1.store, t)
    IN  CASE bad = "to_read" -> st
          [] bad = "read" -> r1.store
          [] bad = "archive" -> r2.store

\* a pass that goes on to the documents after the folders could not be had
PassContinuing(st, rs, processed, cfg, t) ==
    PassResult(st, rs, processed, cfg, t)

\* lines 431-434 and 511-512: no folder_ids, the pass returns before the loop
PassAborted(st, rs, processed, cfg, t) ==
    [folder_ids |-> [r \in RoleSet |-> None],
     acc |-> [store |-> st, reading_state |-> rs,
              processed_files |-> processed,
              run |-> [d \in Docs |-> NoRun],
              counts |-> NoCounts]]

\* a pass in which a role's folder is missing and cannot be created
process_new_articles_unresolved ==
    /\ pc = "pass"
    /\ pc' = PassBoundary(TRUE)
    /\ \E bad \in RoleSet :
        /\ find_folder_id(config.folders[bad], store) = None
        /\ \E res \in {PassAborted(
                          ensure_folders_exist_failing(store, store, config,
                                                       now, bad),
                          reading_state, processed_files, config, now)} :
            /\ store' = res.acc.store
            /\ reading_state' = res.acc.reading_state
            /\ processed_files' = res.acc.processed_files
            /\ folder_ids' = res.folder_ids
            /\ run' = res.acc.run
            /\ counts' = res.acc.counts
    /\ undisturbed' = TRUE
    /\ fault' = "resolver"
    /\ UNCHANGED <<now, ticks, events, config, content, pagedata,
                   reading_state_file>>

\* the loop of lines 443-500 up to the position last of the listing
RECURSIVE ProcessUntil(_, _, _, _, _, _, _)
ProcessUntil(acc, i, last, metadata, fids, cfg, t) ==
    IF i > last THEN acc
    ELSE ProcessUntil(IF IdOrder[i] \in DOMAIN metadata
                      THEN ProcessDocument(acc, IdOrder[i], metadata, fids,
                                           cfg, t)
                      ELSE acc,
                      i + 1, last, metadata, fids, cfg, t)

\* the position in the listing of the first document at which line 448
\* raises
RaisesAt(metadata, cfg) ==
    CHOOSE i \in 1..Len(IdOrder) :
        /\ IdOrder[i] \in Raising(metadata, cfg)
        /\ \A j \in 1..(i - 1) : IdOrder[j] \notin Raising(metadata, cfg)

\* lines 425-512 when line 448 raises: the documents listed before the
\* one that raises are processed, the loop is left for the except of line
\* 511, and save_reading_state is not reached
PassRaising(st, rs, processed, cfg, t) ==
    LET metadata == get_documents_metadata(st)
        ens == ensure_folders_exist(metadata, st, cfg, t)
    IN  [folder_ids |-> ens.folder_ids,
         acc |-> ProcessUntil([store |-> ens.store, reading_state |-> rs,
                               processed_files |-> processed,
                               run |-> [d \in Docs |-> NoRun],
                               counts |-> NoCounts],
                              1, RaisesAt(metadata, cfg) - 1, metadata,
                              ens.folder_ids, cfg, t)]

process_new_articles_raising ==
    /\ pc = "pass"
    /\ Raising(store, config) # {}
    /\ pc' = PassBoundary(TRUE)
    /\ \E res \in {PassRaising(store, reading_state, processed_files,
                               config, now)} :
        /\ store' = res.acc.store
        /\ reading_state' = res.acc.reading_state
        /\ processed_files' = res.acc.processed_files
        /\ folder_ids' = res.folder_ids
        /\ run' = res.acc.run
        /\ counts' = res.acc.counts
    /\ undisturbed' = TRUE
    /\ fault' = "metadata"
    /\ UNCHANGED <<now, ticks, events, config, content, pagedata,
                   reading_state_file>>

\* lines 316-318: the write of a move fails, the document's file stays as
\* it was and the pass goes on
move_document_failing(doc_id, st, before) ==
    [st EXCEPT ![doc_id] = before[doc_id]]

RECURSIVE MovesFailing(_, _, _)
MovesFailing(failing, st, before) ==
    IF failing = {} THEN st
    ELSE LET d == CHOOSE x \in failing : TRUE
         IN  MovesFailing(failing \ {d},
                          move_document_failing(d, st, before), before)

\* a pass in which the metadata of some of the documents it moves cannot
\* be written
process_new_articles_unwritten ==
    /\ pc = "pass"
    /\ Raising(store, config) = {}
    /\ pc' = PassBoundary(FALSE)
    /\ \E res \in {PassResult(store, reading_state, processed_files,
                              config, now)} :
        /\ \E failing \in SUBSET {d \in Docs :
                                    res.acc.run[d].target_folder_type # None} :
            /\ failing # {}
            /\ store' = MovesFailing(failing, res.acc.store, store)
        /\ reading_state' = res.acc.reading_state
        /\ processed_files' = res.acc.processed_files
        /\ folder_ids' = res.folder_ids
        /\ run' = res.acc.run
        /\ counts' = res.acc.counts
        /\ reading_state_file' = save_reading_state(res.acc.reading_state)
    /\ undisturbed' = TRUE
    /\ fault' = "write"
    /\ UNCHANGED <<now, ticks, events, config, content, pagedata>>

\* the file after json.dump was cut short: open(.., 'w') has emptied it and
\* the records of the first k documents have been written (the runs take
\* k = 0 and k = 1)
PartialFile(rs, k) ==
    [complete |-> FALSE,
     records |-> [d \in {x \in DOMAIN rs :
                           \E i \in 1..k : IdOrder[i] = x} |-> rs[d]]]

\* a pass whose process is killed (SIGKILL, SIGTERM, power) inside
\* save_reading_state, lines 117-119
process_new_articles_killed ==
    /\ pc = "pass"
    /\ Raising(store, config) = {}
    /\ pc' = "stopped"
    /\ \E res \in {PassResult(store, reading_state, processed_files,
                              config, now)} :
        /\ store' = res.acc.store
        /\ reading_state' = res.acc.reading_state
        /\ processed_files' = res.acc.processed_files
        /\ folder_ids' = res.folder_ids
        /\ run' = res.acc.run
        /\ counts' = res.acc.counts
        /\ \E k \in {0, 1} :
              reading_state_file' = PartialFile(res.acc.reading_state, k)
    /\ undisturbed' = TRUE
    /\ fault' = "flush"
    /\ UNCHANGED <<now, ticks, events, config, content, pagedata>>

\* run_daemon, lines 523-524: KeyboardInterrupt during time.sleep
Interrupt ==
    /\ pc = "sleep"
    /\ pc' = "stopped"
    /\ UNCHANGED <<now, ticks, events, config, store, content, pagedata,
                   reading_state, processed_files, folder_ids, run, counts,
                   undisturbed, reading_state_file, fault>>

\* lines 29-35: the process is started again; a new controller has an
\* empty processed set and the reading state it loads from the file
Restart ==
    /\ pc = "stopped"
    /\ events < MaxEvents
    /\ pc' = "pass"
    /\ processed_files' = {}
    /\ reading_state' = load_reading_state(reading_state_file)
    /\ events' = events + 1
    /\ undisturbed' = FALSE
    /\ UNCHANGED <<now, ticks, config, store, content, pagedata, folder_ids,
                   run, counts, reading_state_file, fault>>

\* the reader puts a filed document back at root
UserMovesToRoot ==
    /\ pc = "sleep"
    /\ events < MaxEvents
    /\ \E d \in LiveDocs :
        /\ store[d].parent # Root
        /\ store' = [store EXCEPT ![d].parent = Root,
                                  ![d].lastModified = NowMs]
    /\ events' = events + 1
    /\ undisturbed' = FALSE
    /\ UNCHANGED <<pc, now, ticks, config, content, pagedata, reading_state,
                   processed_files, folder_ids, run, counts,
                   reading_state_file, fault>>

\* ------------------------------------ initial states of the fault runs
\* a second article, old enough, at root
SecondArticle == DocumentMetadata(BlogName, Root, FALSE, OldMs, 0)
\* a Collection that carries an article's name
NamedCollection == FolderMetadata(ArticleName, Root, 0)

FaultStore(used, m1) ==
    [i \in Docs \cup InitialFolders(used) \cup {"f4"} |->
        CASE i = "d2" -> SecondArticle
          [] i = "f4" -> NamedCollection
          [] OTHER -> InitialStore(used, m1)[i]]

FaultReadings ==
    {[content |-> ContentFile("object", 4), pagedata |-> <<BlankPage>>],
     [content |-> ContentFile("object", 5),
      pagedata |-> [i \in 1..5 |-> AnnotatedPage]]}

\* the defaults: auto-move on, no date folders, no archiving
FaultConfigs == {default_config}

FaultInit ==
    /\ pc = "pass"
    /\ now = Epoch0
    /\ ticks = 0
    /\ events = 0
    /\ config \in FaultConfigs
    /\ \E used \in BOOLEAN, lm \in {OldMs, Malformed} :
         /\ \E p \in InitialParents(used) :
              store = FaultStore(used,
                          DocumentMetadata(ArticleName, p, FALSE, lm,
                                           RecentMs))
         /\ reading_state_file = save_reading_state(InitialReadingState(used))
         /\ reading_state = load_reading_state(reading_state_file)
    /\ \E r \in FaultReadings :
         /\ content = [d \in Docs |-> IF d = "d1" THEN r.content
                                      ELSE CompanionReading.content]
         /\ pagedata = [d \in Docs |-> IF d = "d1" THEN r.pagedata
                                       ELSE CompanionReading.pagedata]
    /\ processed_files = {}
    /\ folder_ids = [r \in RoleSet |-> None]
    /\ run = [d \in Docs |-> NoRun]
    /\ counts = NoCounts
    /\ undisturbed = TRUE
    /\ fault = "none"

FaultNext ==
    \/ process_new_articles
    \/ process_new_articles_unresolved
    \/ process_new_articles_raising
    \/ process_new_articles_unwritten
    \/ process_new_articles_killed
    \/ Sleep
    \/ Interrupt
    \/ Restart
    \/ UserMovesToRoot

FaultSpec == FaultInit /\ [][FaultNext]_vars

\* ------------------------------------------ the analyzer on its inputs
\* content of n pages with page metadata of which the first k are annotated
PagesRead(n, k) ==
    [content |-> ContentFile("object", n),
     pagedata |-> [i \in 1..Max(n, k) |->
                      IF i <= k THEN AnnotatedPage ELSE BlankPage]]

AnalyzerReadings ==
    {[content |-> ContentFile("missing", 0), pagedata |-> <<AnnotatedPage>>],
     [content |-> ContentFile("malformed", 0), pagedata |-> <<>>]}
    \cup {PagesRead(0, 1)}
    \cup {PagesRead(5, k) : k \in 0..5}

AnalyzerConfigs ==
    {[default_config EXCEPT !.reading_detection.annotation_indicates_read = a] :
        a \in BOOLEAN}

\* ten minutes, in milliseconds
SessionGapMs == 10 * SecondsPerMinute * MsPerSecond

\* the record of an earlier analysis of a document last opened at RecentMs
PriorRecords ==
    {[last_opened |-> RecentMs, reading_time |-> rt,
      completion_ratio |-> ZeroRatio, has_annotations |-> FALSE,
      last_checked |-> 0] :
        rt \in {0, PriorReadingTime, TimeThreshold - 1, TimeThreshold}}

AnalyzerInit ==
    /\ pc = "analyze"
    /\ now = Epoch0
    /\ ticks = 0
    /\ events = 0
    /\ config \in AnalyzerConfigs
    /\ \E lo \in {0, LongAgoMs, RecentMs, RecentMs + SessionGapMs} :
         store = InitialStore(FALSE,
                     DocumentMetadata(ArticleName, Root, FALSE, OldMs, lo))
    /\ \E r \in AnalyzerReadings :
         /\ content = [d \in Docs |-> IF d = "d1" THEN r.content
                                      ELSE CompanionReading.content]
         /\ pagedata = [d \in Docs |-> IF d = "d1" THEN r.pagedata
                                       ELSE CompanionReading.pagedata]
    /\ \/ reading_state = <<>>
       \/ \E rec \in PriorRecords : reading_state = [d \in {"d1"} |-> rec]
    /\ reading_state_file = save_reading_state(reading_state)
    /\ processed_files = {}
    /\ folder_ids = [r \in RoleSet |-> None]
    /\ run = [d \in Docs |-> NoRun]
    /\ counts = NoCounts
    /\ undisturbed = TRUE
    /\ fault = "none"

\* line 453: one call of analyze_reading_progress
Analyze ==
    /\ pc = "analyze"
    /\ pc' = "analysed"
    /\ run' = [run EXCEPT !["d1"] =
                  [NoRun EXCEPT
                      !.analysed = TRUE,
                      !.analysis = analyze_reading_progress(
                                       "d1", store["d1"], content["d1"],
                                       pagedata["d1"], reading_state, config,
                                       now)]]
    /\ UNCHANGED <<now, ticks, events, config, store, content, pagedata,
                   reading_state, processed_files, folder_ids, counts,
                   undisturbed, reading_state_file, fault>>

AnalyzerNext == Analyze

AnalyzerSpec == AnalyzerInit /\ [][AnalyzerNext]_vars

\* =============================================================== claims
\* a step of the model that is one pass
PassStep == pc = "pass" /\ pc' = "sleep"

\* the live Collections that carry a display name
LiveNamed(st, name) ==
    {id \in DOMAIN st : /\ st[id].type = "CollectionType"
                        /\ st[id].visibleName = name
                        /\ ~st[id].deleted}

\* the document lies in the folder, or in a dated sub-collection of it
UnderFolder(st, d, folder_id) ==
    LET p == st[d].parent
    IN  \/ p = folder_id
        \/ /\ p \in DOMAIN st
           /\ st[p].type = "CollectionType"
           /\ st[p].parent = folder_id

\* the pass moves the document
Moved(d) == store'[d].parent # store[d].parent

\* at the start of the pass: the document's role, whether it passes the
\* eligibility gate, and the analysis the pass makes of it
StartRole(d) == get_document_current_folder(d, store, config)

Eligible(d) ==
    /\ is_article_document(store[d], config)
    /\ ~AgeGate(store[d], config, now)

FreshAnalysis(d) ==
    analyze_reading_progress(d, store[d], content[d], pagedata[d],
                             reading_state, config, now)

\* C1: a pass moves a document by the one transition of the role it has at
\* the start of the pass: from root into to_read, from to_read into read,
\* from read into archive, and from nowhere else; no role is skipped.
C1_TransitionPriority ==
    [][PassStep =>
        \A d \in Docs :
            Moved(d) =>
                LET role == StartRole(d)
                IN  /\ role \in {"root", "to_read", "read"}
                    /\ role = "root" =>
                           /\ UnderFolder(store', d, folder_ids'.to_read)
                           /\ run'[d].target_folder_type = "to_read"
                    /\ role = "to_read" =>
                           /\ UnderFolder(store', d, folder_ids'.read)
                           /\ run'[d].target_folder_type = "read"
                    /\ role = "read" =>
                           /\ UnderFolder(store', d, folder_ids'.archive)
                           /\ run'[d].target_folder_type = "archive"]_vars

\* a document that was in to_read and met the archive condition as well has
\* been moved to read
C1_Witness ==
    /\ pc = "sleep"
    /\ undisturbed
    /\ run["d1"].current_folder_type = "to_read"
    /\ should_archive_document(run["d1"].analysis, config, now)
    /\ run["d1"].target_folder_type = "read"
    /\ UnderFolder(store, "d1", folder_ids.read)


\* the to_read -> read condition of the pass, on the analysis it makes
ReadCondition(d) ==
    /\ config.reading_detection.enable_auto_move
    /\ FreshAnalysis(d).likely_read

\* the previous pass filed the document from root into to_read, and nothing
\* but the clock has changed since
FiledByLastPass(d) ==
    /\ undisturbed
    /\ run[d].current_folder_type = "root"
    /\ run[d].target_folder_type = "to_read"

\* an eligible root document not yet processed is filed under to_read
FiledFromRoot ==
    \A d \in Docs :
        (Eligible(d) /\ store[d].parent = Root /\ d \notin processed_files)
            => /\ Moved(d)
               /\ UnderFolder(store', d, folder_ids'.to_read)

\* C2 as claimed: one pass files an eligible, unprocessed root document
\* under to_read, and the next pass, with no external change in between,
\* leaves it where it is.
C2_AsClaimed ==
    [][PassStep =>
        /\ FiledFromRoot
        /\ \A d \in Docs : FiledByLastPass(d) => ~Moved(d)]_vars

\* C2 amended: one pass files an eligible, unprocessed root document under
\* to_read (in a dated sub-collection with date-bucketing); the next pass,
\* with no external change in between, moves it exactly when it passes the
\* age gate again, lies directly in the to_read folder, auto-move is enabled
\* and its analysis is likely_read, and then moves it on to read.
C2_FiledThenKeptOrRead ==
    [][PassStep =>
        /\ FiledFromRoot
        /\ \A d \in Docs :
              FiledByLastPass(d) =>
                  /\ Moved(d) <=> /\ Eligible(d)
                                  /\ StartRole(d) = "to_read"
                                  /\ ReadCondition(d)
                  /\ Moved(d) => UnderFolder(store', d, folder_ids'.read)]_vars

\* the second pass has analysed the document filed by the first and has left
\* it in to_read
C2_Witness ==
    /\ pc = "sleep"
    /\ undisturbed
    /\ events = 0
    /\ ticks = 1
    /\ "d1" \in processed_files
    /\ run["d1"].analysed
    /\ run["d1"].current_folder_type = "to_read"
    /\ run["d1"].target_folder_type = None
    /\ store["d1"].parent = folder_ids.to_read

\* C3: a pass moves an eligible document whose role is to_read to read if and
\* only if auto-move is enabled and its analysis is likely_read; otherwise
\* it leaves the document as it is.
C3_MoveToReadIff ==
    [][PassStep =>
        \A d \in Docs :
            (Eligible(d) /\ StartRole(d) = "to_read") =>
                /\ (Moved(d) /\ UnderFolder(store', d, folder_ids'.read))
                       <=> ReadCondition(d)
                /\ ~Moved(d) => store'[d] = store[d]]_vars

\* five annotated pages of five: the document went from to_read to read
C3_Witness ==
    /\ pc = "sleep"
    /\ undisturbed
    /\ run["d1"].current_folder_type = "to_read"
    /\ run["d1"].analysis.pages_read = 5
    /\ run["d1"].analysis.total_pages = 5
    /\ run["d1"].analysis.likely_read
    /\ run["d1"].target_folder_type = "read"
    /\ UnderFolder(store, "d1", folder_ids.read)

\* the read -> archive condition of the pass, on the analysis it makes
ArchiveCondition(d) ==
    /\ config.archive_read_articles.enable
    /\ FreshAnalysis(d).likely_read
    /\ NowMs - FreshAnalysis(d).last_opened
           >= config.archive_read_articles.days_threshold
                  * SecondsPerDay * MsPerSecond

\* C4: a pass moves an eligible document whose role is read to archive if
\* and only if archiving is enabled, its analysis is likely_read and
\* last_opened lies at least days_threshold days back; with archiving
\* disabled no pass moves a document whose role is read.
C4_ArchiveIff ==
    [][PassStep =>
        \A d \in Docs :
            /\ (Eligible(d) /\ StartRole(d) = "read") =>
                   /\ (Moved(d) /\ UnderFolder(store', d, folder_ids'.archive))
                          <=> ArchiveCondition(d)
                   /\ ~Moved(d) => store'[d] = store[d]
            /\ (StartRole(d) = "read" /\ ~config.archive_read_articles.enable)
                   => ~Moved(d)]_vars

\* a document last opened exactly days_threshold days ago went from read to
\* archive
C4_Witness ==
    /\ pc = "sleep"
    /\ undisturbed
    /\ run["d1"].current_folder_type = "read"
    /\ run["d1"].target_folder_type = "archive"
    /\ NowMs - run["d1"].analysis.last_opened
           = DaysThreshold * SecondsPerDay * MsPerSecond
    /\ UnderFolder(store, "d1", folder_ids.archive)

\* the document was modified less than file_age_threshold minutes ago
Younger(d) ==
    NowMs - store[d].lastModified
        < config.file_age_threshold * SecondsPerMinute * MsPerSecond

\* C5: a pass moves no document younger than file_age_threshold minutes,
\* whatever its role, its reading analysis and the processed set.
C5_AgeGate ==
    [][PassStep => \A d \in Docs : Younger(d) => ~Moved(d)]_vars

\* an article at root, not yet processed and one minute old, has been left
\* at root by a pass
C5_Witness ==
    /\ pc = "sleep"
    /\ undisturbed
    /\ is_article_document(store["d2"], config)
    /\ store["d2"].parent = Root
    /\ "d2" \notin processed_files
    /\ Younger("d2")
    /\ ~run["d2"].analysed


\* C6: a role's folder, once resolved and not deleted since, resolves to the
\* same Collection again: in the store a pass leaves, a further find-or-create
\* returns the pass's identifier and creates nothing, and the next pass
\* returns the identifier of the pass before it and adds no Collection of
\* that name.
C6_IdempotentResolution ==
    [][PassStep =>
        \A r \in RoleSet :
            /\ LET again == ResolveOrCreate(config.folders[r], store', store', now)
               IN  /\ again.id = folder_ids'[r]
                   /\ again.store = store'
            /\ (folder_ids[r] # None /\ ~store[folder_ids[r]].deleted) =>
                   /\ folder_ids'[r] = folder_ids[r]
                   /\ LiveNamed(store', config.folders[r])
                          = LiveNamed(store, config.folders[r])]_vars

\* the second pass has resolved to_read to the folder the first pass created
C6_Witness ==
    /\ pc = "sleep"
    /\ ticks = 1
    /\ events = 0
    /\ folder_ids.to_read \in DOMAIN store
    /\ store[folder_ids.to_read].lastModified = Epoch0Ms
    /\ LiveNamed(store, config.folders.to_read) = {folder_ids.to_read}

\* C7: after a pass, and until the reader acts on the store, every role's
\* display name is carried by exactly one live Collection.
C7_OneFolderPerRole ==
    (pc = "sleep" /\ undisturbed) =>
        \A r \in RoleSet :
            Cardinality(LiveNamed(store, config.folders[r])) = 1

\* three passes, a folder deleted in between and made again
C7_Witness ==
    /\ pc = "sleep"
    /\ undisturbed
    /\ ticks = 2
    /\ events = 1
    /\ \E r \in RoleSet :
          /\ \E f \in DOMAIN store :
                /\ store[f].deleted
                /\ store[f].visibleName = config.folders[r]
                /\ store[f].lastModified = Epoch0Ms
          /\ Cardinality(LiveNamed(store, config.folders[r])) = 1

\* C8 as claimed: when a pass replaces a document's record and last_opened
\* has not decreased, the record's reading_time has not decreased either.
C8_AsClaimed ==
    [][PassStep =>
        \A d \in DOMAIN reading_state :
            reading_state'[d].last_opened >= reading_state[d].last_opened
                => reading_state'[d].reading_time
                       >= reading_state[d].reading_time]_vars

\* C9: every analysis a pass makes has a completion_ratio of at least 0, and
\* of 0 when total_pages is 0, whatever the annotated pages.
C9_CompletionRatioBound ==
    \A d \in Docs :
        run[d].analysed =>
            LET a == run[d].analysis
            IN  /\ a.completion_ratio[2] > 0
                /\ a.completion_ratio[1] >= 0
                /\ a.total_pages = 0 => a.completion_ratio[1] = 0

\* an analysis of a document with an annotated page and no page in its
\* content
C9_Witness ==
    /\ run["d1"].analysed
    /\ run["d1"].analysis.total_pages = 0
    /\ run["d1"].analysis.has_annotations
    /\ run["d1"].analysis.completion_ratio = ZeroRatio

\* C10: a pass leaves, for every document that passes the gate, a record
\* with the values of the analysis it made, whether it moved the document
\* or not.
C10_RecordOverwritten ==
    [][PassStep =>
        \A d \in Docs :
            Eligible(d) =>
                /\ d \in DOMAIN reading_state'
                /\ LET a == FreshAnalysis(d)
                       r == reading_state'[d]
                   IN  /\ r.last_opened = a.last_opened
                       /\ r.reading_time = a.reading_time
                       /\ r.completion_ratio = a.completion_ratio
                       /\ r.has_annotations = a.has_annotations]_vars

\* a document that had a record has been analysed again and not moved, and
\* its record carries the new analysis
C10_Witness ==
    /\ pc = "sleep"
    /\ undisturbed
    /\ ticks = 0
    /\ run["d1"].analysed
    /\ run["d1"].target_folder_type = None
    /\ run["d1"].analysis.last_opened = RecentMs
    /\ reading_state["d1"].last_opened = RecentMs
    /\ reading_state["d1"].reading_time = PriorReadingTime + MaxSessionTime
    /\ reading_state["d1"].last_checked = now


\* C11: a pass in which a role's folder can be neither found nor created
\* moves no document, analyses none and leaves the observation records,
\* the processed set and the counters as they were; the pass after it
\* resolves the folders again.
C11_AbortedPass ==
    [][PassStep =>
        /\ fault' = "resolver" =>
              /\ \A d \in Docs : store'[d] = store[d] /\ ~run'[d].analysed
              /\ reading_state' = reading_state
              /\ processed_files' = processed_files
              /\ counts' = NoCounts
        /\ (fault = "resolver" /\ fault' = "none") =>
              \A r \in RoleSet :
                  folder_ids'[r] \in LiveNamed(store', config.folders[r])]_vars

\* an aborted pass has left an eligible root document where it was
C11_Witness ==
    /\ pc = "sleep"
    /\ fault = "resolver"
    /\ \E d \in Docs :
          /\ is_article_document(store[d], config)
          /\ ~AgeGate(store[d], config, now)
          /\ store[d].parent = Root
          /\ d \notin processed_files


\* the document's metadata has the fields the pass reads in their form
WellFormed(d) == store[d].lastModified # Malformed

\* C12 as claimed: in a pass that is not aborted for its folders, every
\* well-formed document that passes the gate is analysed and gets its
\* record, whatever fails on another document.
C12_AsClaimed ==
    [][(PassStep /\ fault' # "resolver") =>
        \A d \in Docs :
            (WellFormed(d) /\ Eligible(d)) =>
                /\ run'[d].analysed
                /\ d \in DOMAIN reading_state']_vars


\* C13: a pass that raises ends at the pass boundary like any other and the
\* loop sleeps before the next pass; the process ends only from outside:
\* interrupted in its sleep, or killed inside a pass.
C13_DaemonSurvives ==
    [][/\ pc = "pass" =>
            /\ pc' \in {"pass", "sleep", "stopped"}
            /\ pc' = "stopped" => fault' = "flush"
            /\ (pc' # "pass" /\ fault' \in {"resolver", "metadata", "write"})
                   => pc' = "sleep"
       /\ pc = "sleep" =>
            /\ pc' \in {"sleep", "pass", "stopped"}
            /\ pc' = "pass" => now' >= now + PollInterval]_vars

\* a pass has raised, the loop has slept and stands before the next pass
C13_Witness ==
    /\ pc = "pass"
    /\ ticks = 1
    /\ events = 0
    /\ fault = "metadata"


C15_AsClaimed ==
    [][reading_state_file' \in {reading_state_file,
                                save_reading_state(reading_state')}]_vars


\* the display name holds, in lower case, a configured source pattern or
\* one of the web indicators
ArticleLikeName(name) ==
    \/ \E k \in 1..Len(config.source_patterns) :
           Contains(LowerName(config.source_patterns[k]), LowerName(name))
    \/ \E k \in 1..Len(WebIndicators) :
           Contains(WebIndicators[k], LowerName(name))

\* tombstoned, a Collection, or without an article's name
Excluded(i) ==
    \/ store[i].deleted
    \/ store[i].type = "CollectionType"
    \/ ~ArticleLikeName(store[i].visibleName)

\* C16: a pass, however it ends, leaves alone every entity that is
\* tombstoned, is a Collection or carries no article's name: its record in
\* the store is unchanged, it is not analysed and no observation record of
\* it is written.
C16_OnlyArticles ==
    [][pc = "pass" =>
        \A i \in DOMAIN store :
            Excluded(i) =>
                /\ store'[i] = store[i]
                /\ i \in Docs => ~run'[i].analysed
                /\ i \in DOMAIN reading_state' =>
                       /\ i \in DOMAIN reading_state
                       /\ reading_state'[i] = reading_state[i]]_vars

\* a pass has moved an article and left alone the tombstoned article, the
\* document that is no article and the Collection with an article's name
C16_Witness ==
    /\ pc = "sleep"
    /\ fault = "none"
    /\ ticks = 0
    /\ counts.articles_processed > 0
    /\ store["d3"] = DeletedArticle
    /\ store["d4"] = PlainDocument
    /\ store["f4"] = NamedCollection
    /\ DOMAIN reading_state \cap {"d3", "d4", "f4"} = {}


\* the documents a pass has moved by the transition from one role to the
\* next
MovedBy(from, to) ==
    {d \in Docs : /\ Moved(d)
                  /\ run'[d].current_folder_type = from
                  /\ run'[d].target_folder_type = to}

\* C17 as claimed: at the end of a pass the three counters are the numbers
\* of documents the pass has moved from root to to_read, from to_read to
\* read and from read to archive.
C17_AsClaimed ==
    [][PassStep =>
        /\ counts'.articles_processed
               = Cardinality(MovedBy("root", "to_read"))
        /\ counts'.articles_moved_to_read
               = Cardinality(MovedBy("to_read", "read"))
        /\ counts'.articles_archived
               = Cardinality(MovedBy("read", "archive"))]_vars


\* C18: the transition from root to to_read is taken only for a document
\* whose id is not in the processed set, and taking it puts the id in the
\* set; a pass moves no root document whose id is in the set; the set does
\* not shrink while the process lives; a process started again has an empty
\* set, and a pass that ends normally files every eligible root document
\* whose id is not in the set.
C18_RootTransitionOnce ==
    [][/\ pc = "pass" =>
            \A d \in Docs :
                /\ (run'[d].analysed
                    /\ run'[d].current_folder_type = "root"
                    /\ run'[d].target_folder_type = "to_read")
                       => (d \notin processed_files /\ d \in processed_files')
                /\ (d \in processed_files /\ store[d].parent = Root)
                       => store'[d] = store[d]
       /\ pc # "stopped" => processed_files \subseteq processed_files'
       /\ (pc = "stopped" /\ pc' = "pass") => processed_files' = {}
       /\ (PassStep /\ fault' = "none") =>
            \A d \in Docs :
                (WellFormed(d) /\ Eligible(d) /\ store[d].parent = Root
                 /\ d \notin processed_files)
                    => (Moved(d)
                        /\ UnderFolder(store', d, folder_ids'.to_read))]_vars

\* the reader has put a filed document back at root, and a pass has
\* analysed it there and left it
C18_Witness ==
    /\ pc = "sleep"
    /\ fault = "none"
    /\ events = 1
    /\ "d1" \in processed_files
    /\ store["d1"].parent = Root
    /\ store["d1"].lastModified > Epoch0Ms - 1
    /\ run["d1"].analysed
    /\ run["d1"].current_folder_type = "root"
    /\ run["d1"].target_folder_type = None


\* C19: the verdict of an analysis is true exactly when its completion_ratio
\* is at least pages_threshold, or the annotation signal is enabled and it
\* has annotations and a completion_ratio above 0.3, or its reading_time is
\* at least time_threshold.
C19_LikelyReadIff ==
    \A d \in Docs :
        run[d].analysed =>
            LET a == run[d].analysis
            IN  a.likely_read <=>
                    \/ a.completion_ratio[1] * Tenths
                           >= PagesThresholdTenths * a.completion_ratio[2]
                    \/ /\ config.reading_detection.annotation_indicates_read
                       /\ a.has_annotations
                       /\ a.completion_ratio[1] * Tenths
                              > AnnotationRatioTenths * a.completion_ratio[2]
                    \/ a.reading_time
                           >= config.reading_detection.time_threshold

\* 2 annotated pages of 5 and no reading time: the annotation signal alone
\* makes the verdict
C19_Witness ==
    /\ run["d1"].analysed
    /\ config.reading_detection.annotation_indicates_read
    /\ run["d1"].analysis.has_annotations
    /\ run["d1"].analysis.completion_ratio = <<2, 5>>
    /\ run["d1"].analysis.reading_time = 0
    /\ run["d1"].analysis.likely_read

\* C20 as claimed: the reading_time of an analysis is 0 without a prior
\* record, the prior reading_time when last_opened has not advanced, and
\* else the prior reading_time plus the seconds from the prior last_opened
\* to the new one, at most 3600.
C20_AsClaimed ==
    (run["d1"].analysed /\ content["d1"].kind # "malformed") =>
        run["d1"].analysis.reading_time =
            IF "d1" \notin DOMAIN reading_state THEN 0
            ELSE IF store["d1"].lastOpened <= reading_state["d1"].last_opened
                 THEN reading_state["d1"].reading_time
                 ELSE reading_state["d1"].reading_time
                          + Min(MaxSessionTime,
                                (store["d1"].lastOpened
                                   - reading_state["d1"].last_opened)
                                      \div MsPerSecond)


\* the role of a document in a store: root without a parent, the role
\* whose live Collection is its parent, and other for any other parent
RoleAt(st, d) ==
    LET p == st[d].parent
    IN  IF p = Root THEN "root"
        ELSE IF p \in LiveNamed(st, config.folders.to_read) THEN "to_read"
        ELSE IF p \in LiveNamed(st, config.folders.read) THEN "read"
        ELSE IF p \in LiveNamed(st, config.folders.archive) THEN "archive"
        ELSE "other"

NextRole(role) ==
    CASE role = "root" -> "to_read"
      [] role = "to_read" -> "read"
      [] role = "read" -> "archive"

\* C21: a pass moves a document only forward along root, to_read, read,
\* archive: a document it moves was in root, to_read or read and lies after
\* the pass under the folder of the next role; it moves no document that is
\* in archive and none whose role is other.
C21_RoleOnlyAdvances ==
    [][PassStep =>
        \A d \in Docs :
            Moved(d) =>
                /\ RoleAt(store, d) \in {"root", "to_read", "read"}
                /\ \E f \in LiveNamed(store',
                                      config.folders[NextRole(RoleAt(store, d))]) :
                        UnderFolder(store', d, f)]_vars

\* an earlier pass has archived the article, and a later pass has analysed
\* it in archive, found it read, and left it there
C21_Witness ==
    /\ pc = "sleep"
    /\ ticks >= 1
    /\ run["d1"].analysed
    /\ run["d1"].current_folder_type = "archive"
    /\ run["d1"].analysis.likely_read
    /\ store["d1"].parent = folder_ids.archive


\* the document lies in a sub-collection of another Collection
Nested(st, d) ==
    LET p == st[d].parent
    IN  /\ p \in DOMAIN st
        /\ st[p].type = "CollectionType"
        /\ st[p].parent # Root

\* C22: with organize_by_date on, a pass that moves a document puts it in
\* a live sub-collection named by the date of the document's last change,
\* whose parent is the folder of the target role; a document in such a
\* sub-collection stays there, and every pass that analyses it finds the
\* role other and takes no transition.
C22_DatedThenOther ==
    [][config.organize_by_date =>
        \A d \in Docs :
            /\ (PassStep /\ Moved(d)) =>
                  LET p == store'[d].parent
                  IN  /\ p \in DOMAIN store'
                      /\ store'[p].type = "CollectionType"
                      /\ ~store'[p].deleted
                      /\ store'[p].visibleName = DateStr(store[d].lastModified)
                      /\ store'[p].parent
                             = folder_ids'[NextRole(RoleAt(store, d))]
            /\ Nested(store, d) =>
                  /\ RoleAt(store, d) = "other"
                  /\ store'[d].parent = store[d].parent
                  /\ PassStep => store'[d] = store[d]
                  /\ (PassStep /\ run'[d].analysed) =>
                        /\ run'[d].current_folder_type = "other"
                        /\ run'[d].target_folder_type = None]_vars

\* an earlier pass has filed the article in a dated sub-collection of the
\* to_read folder; a later pass has analysed it, found it read with the
\* move to the read folder switched on, and classified it as other
C22_Witness ==
    /\ pc = "sleep"
    /\ config.organize_by_date
    /\ config.reading_detection.enable_auto_move
    /\ run["d1"].analysed
    /\ run["d1"].current_folder_type = "other"
    /\ run["d1"].analysis.likely_read
    /\ Nested(store, "d1")
    /\ store[store["d1"].parent].parent = folder_ids.to_read


\* the document's last change was made at the time of the pass that last
\* analysed it, as a move of that pass leaves it
StampedByPass(d) ==
    /\ d \in DOMAIN reading_state
    /\ store[d].lastModified = reading_state[d].last_checked * MsPerSecond

\* C23: a pass that moves a document sets its lastModified to the time of
\* the move, the time the pass records as last_checked; a pass that starts
\* less than file_age_threshold minutes after that time does not move the
\* document, does not analyse it and leaves its observation record as it
\* was.
C23_MovedThenSkipped ==
    [][PassStep =>
        \A d \in Docs :
            /\ Moved(d) =>
                  /\ store'[d].lastModified = NowMs
                  /\ d \in DOMAIN reading_state'
                  /\ reading_state'[d].last_checked = now
            /\ (/\ StampedByPass(d)
                /\ now - reading_state[d].last_checked
                       < config.file_age_threshold * SecondsPerMinute) =>
                  /\ ~Moved(d)
                  /\ ~run'[d].analysed
                  /\ d \in DOMAIN reading_state'
                  /\ reading_state'[d] = reading_state[d]]_vars

\* with no action of the reader, a pass has filed the article from root in
\* the to_read folder; the next pass, poll_interval later, has skipped it
\* though its analysis finds it read and the move to the read folder is on
C23_Witness ==
    /\ pc = "sleep"
    /\ events = 0
    /\ ~config.organize_by_date
    /\ config.reading_detection.enable_auto_move
    /\ "d1" \in processed_files
    /\ RoleAt(store, "d1") = "to_read"
    /\ StampedByPass("d1")
    /\ now = reading_state["d1"].last_checked + PollInterval
    /\ ~run["d1"].analysed
    /\ FreshAnalysis("d1").likely_read

====
